---- MODULE Spec2Model ----
(***************************************************************************)
(* Model of the anime/manga recommendation engine: the hybrid ranker       *)
(* (engine/hybrid_ranker.py), the title resolver and the engine facade     *)
(* (engine/recommender.py).                                                *)
(*                                                                         *)
(* Scores are Python floats (IEEE-754 binary64).  They are modelled        *)
(* bit-exactly: a finite float is sign * m * 2^e with m a 53-bit mantissa  *)
(* held as a little-endian sequence of 15-bit limbs, and every arithmetic  *)
(* operation rounds to nearest, ties to even, as the hardware does.        *)
(***************************************************************************)
EXTENDS Integers, Sequences, FiniteSets, TLC

VARIABLES
    pc,              \* "ready" before the call under check, "done" after it;
                     \* for the engine "down", "serving" and "replied"
    args,            \* the arguments of the call, by parameter name
    ret,             \* what the call returned or raised
    documents,       \* Recommender.documents: the corpus loaded at construction
    ntotal,          \* the number of vectors in Recommender.index
    reference_doc,   \* by_title's reference_doc when it returned or raised
    calls,           \* the calls the last request made to the model and the index
    earlier,         \* what this engine served before: "none", "served" when
                     \* every earlier request got by without a failure of the
                     \* model or the index, "failed" otherwise
    store,           \* the documents of the database, in find() order
    embeddings_file, \* data/embeddings.pkl: None, or the number of embeddings
    index_file,      \* data/faiss.index: None, or the number of vectors
    threads,         \* the calls in progress of the callers that share the
                     \* engine, with each call's local variables
    state,           \* DashboardUI.state: the AppState of the dashboard
    engine,          \* DashboardUI.engine: None, or the Recommender
    key              \* the key whose handler DashboardUI.run is in

vars == <<pc, args, ret, documents, ntotal, reference_doc, calls, earlier,
          store, embeddings_file, index_file, threads, state, engine, key>>

\* what belongs to callers sharing an engine and to the dashboard
NoCallersNoDashboard ==
    threads = <<>> /\ state = <<>> /\ engine = <<>> /\ key = <<>>

(***************************************************************************)
(* Natural numbers of arbitrary size: little-endian limbs, base 2^15.      *)
(***************************************************************************)
Base == 2 ^ 15

RECURSIVE BitLenInt(_)
BitLenInt(n) == IF n = 0 THEN 0 ELSE 1 + BitLenInt(n \div 2)

LimbBits == BitLenInt(Base) - 1

RECURSIVE Trim(_)
Trim(a) ==
    IF a = <<>> THEN a
    ELSE IF a[Len(a)] = 0 THEN Trim(SubSeq(a, 1, Len(a) - 1)) ELSE a

RECURSIVE FromNat(_)
FromNat(n) == IF n = 0 THEN <<>> ELSE <<n % Base>> \o FromNat(n \div Base)

RECURSIVE AddC(_, _, _)
AddC(a, b, c) ==
    IF a = <<>> /\ b = <<>> THEN (IF c = 0 THEN <<>> ELSE <<c>>)
    ELSE LET x == IF a = <<>> THEN 0 ELSE Head(a)
             y == IF b = <<>> THEN 0 ELSE Head(b)
             s == x + y + c
         IN  <<s % Base>> \o AddC(IF a = <<>> THEN a ELSE Tail(a),
                                  IF b = <<>> THEN b ELSE Tail(b),
                                  s \div Base)

BigAdd(a, b) == AddC(a, b, 0)

\* a - b for a >= b
RECURSIVE SubB(_, _, _)
SubB(a, b, c) ==
    IF a = <<>> THEN <<>>
    ELSE LET y == IF b = <<>> THEN 0 ELSE Head(b)
             s == Head(a) - y - c
         IN  <<IF s < 0 THEN s + Base ELSE s>>
                \o SubB(Tail(a), IF b = <<>> THEN b ELSE Tail(b),
                        IF s < 0 THEN 1 ELSE 0)

BigSub(a, b) == Trim(SubB(a, b, 0))

\* -1, 0, 1 as a < b, a = b, a > b (both trimmed)
RECURSIVE CmpFrom(_, _, _)
CmpFrom(a, b, i) ==
    IF i = 0 THEN 0
    ELSE IF a[i] < b[i] THEN -1
    ELSE IF a[i] > b[i] THEN 1
    ELSE CmpFrom(a, b, i - 1)

BigCmp(a, b) ==
    IF Len(a) < Len(b) THEN -1
    ELSE IF Len(a) > Len(b) THEN 1
    ELSE CmpFrom(a, b, Len(a))

\* a * k + c for a limb-sized k
RECURSIVE MulSmall(_, _, _)
MulSmall(a, k, c) ==
    IF a = <<>> THEN (IF c = 0 THEN <<>> ELSE <<c>>)
    ELSE LET s == Head(a) * k + c
         IN  <<s % Base>> \o MulSmall(Tail(a), k, s \div Base)

RECURSIVE BigMul(_, _)
BigMul(a, b) ==
    IF a = <<>> \/ b = <<>> THEN <<>>
    ELSE Trim(BigAdd(MulSmall(a, Head(b), 0),
                     IF Tail(b) = <<>> THEN <<>> ELSE <<0>> \o BigMul(a, Tail(b))))

\* quotient and remainder of a by a limb-sized d > 0
RECURSIVE DivFrom(_, _, _, _)
DivFrom(a, d, i, r) ==
    IF i = 0 THEN [q |-> <<>>, r |-> r]
    ELSE LET cur  == r * Base + a[i]
             rest == DivFrom(a, d, i - 1, cur % d)
         IN  [q |-> rest.q \o <<cur \div d>>, r |-> rest.r]

DivSmall(a, d) ==
    LET res == DivFrom(a, d, Len(a), 0) IN [q |-> Trim(res.q), r |-> res.r]

Zeros(n) == [i \in 1..n |-> 0]

BigShl(a, bits) ==
    IF a = <<>> THEN a
    ELSE Trim(MulSmall(Zeros(bits \div LimbBits) \o a, 2 ^ (bits % LimbBits), 0))

BigShr(a, bits) ==
    LET k == bits \div LimbBits
    IN  IF k >= Len(a) THEN <<>>
        ELSE DivSmall(SubSeq(a, k + 1, Len(a)), 2 ^ (bits % LimbBits)).q

BitLen(a) == IF a = <<>> THEN 0 ELSE LimbBits * (Len(a) - 1) + BitLenInt(a[Len(a)])

\* bit i (0 = least significant) of a
Bit(a, i) ==
    LET k == i \div LimbBits + 1
    IN  IF k > Len(a) THEN 0 ELSE (a[k] \div (2 ^ (i % LimbBits))) % 2

\* whether the low `bits` bits of a are all zero
LowZero(a, bits) == BigShl(BigShr(a, bits), bits) = a

(***************************************************************************)
(* IEEE-754 binary64.  A finite nonzero float is (-1)^neg * m * 2^e with   *)
(* 2^52 <= m < 2^53, so equal floats are equal records.  NaN is what       *)
(* numpy makes of None (a null popularity or average_score).               *)
(***************************************************************************)
\* 52 stored fraction bits and the implicit leading bit
MantBits == 52 + 1

NaN   == [nan |-> TRUE,  neg |-> FALSE, m |-> <<>>, e |-> 0]
FZero == [nan |-> FALSE, neg |-> FALSE, m |-> <<>>, e |-> 0]

IsNaN(x)  == x.nan
IsZero(x) == ~x.nan /\ x.m = <<>>

\* the float nearest to (-1)^neg * (M + s) * 2^E, where 0 <= s < 1 and sticky
\* tells whether s > 0; round to nearest, ties to even
RoundPack(neg, M, E, sticky) ==
    LET L == BitLen(M)
    IN  IF M = <<>> THEN FZero
        ELSE IF L <= MantBits
        THEN [nan |-> FALSE, neg |-> neg, m |-> BigShl(M, MantBits - L),
              e |-> E - (MantBits - L)]
        ELSE LET d    == L - MantBits
                 q    == BigShr(M, d)
                 half == Bit(M, d - 1) = 1
                 rest == sticky \/ ~LowZero(M, d - 1)
                 up   == half /\ (rest \/ q[1] % 2 = 1)
                 q2   == IF up THEN BigAdd(q, <<1>>) ELSE q
             IN  IF BitLen(q2) > MantBits
                 THEN [nan |-> FALSE, neg |-> neg, m |-> BigShr(q2, 1), e |-> E + d + 1]
                 ELSE [nan |-> FALSE, neg |-> neg, m |-> q2, e |-> E + d]

\* float(n) for an integer n
FromInt(n) ==
    IF n < 0 THEN RoundPack(TRUE, FromNat(-n), 0, FALSE)
    ELSE RoundPack(FALSE, FromNat(n), 0, FALSE)

\* the float a / 2^k
Dyadic(a, k) ==
    IF a < 0 THEN RoundPack(TRUE, FromNat(-a), -k, FALSE)
    ELSE RoundPack(FALSE, FromNat(a), -k, FALSE)

FNeg(x) == IF x.nan \/ x.m = <<>> THEN x ELSE [x EXCEPT !.neg = ~x.neg]

\* x + y
FAdd(x, y) ==
    IF x.nan \/ y.nan THEN NaN
    ELSE IF x.m = <<>> THEN y
    ELSE IF y.m = <<>> THEN x
    ELSE LET e  == IF x.e < y.e THEN x.e ELSE y.e
             mx == BigShl(x.m, x.e - e)
             my == BigShl(y.m, y.e - e)
             c  == BigCmp(mx, my)
         IN  IF x.neg = y.neg THEN RoundPack(x.neg, BigAdd(mx, my), e, FALSE)
             ELSE IF c = 0 THEN FZero
             ELSE IF c > 0 THEN RoundPack(x.neg, BigSub(mx, my), e, FALSE)
             ELSE RoundPack(y.neg, BigSub(my, mx), e, FALSE)

FSub(x, y) == FAdd(x, FNeg(y))

\* x * y
FMul(x, y) ==
    IF x.nan \/ y.nan THEN NaN
    ELSE IF x.m = <<>> \/ y.m = <<>> THEN FZero
    ELSE RoundPack(x.neg # y.neg, BigMul(x.m, y.m), x.e + y.e, FALSE)

\* a / b for integers a >= 0 and 0 < b < 2^15, as the float division of
\* float(a) by float(b)
FDivInt(a, b) ==
    LET k  == 5 * LimbBits
        qr == DivSmall(BigShl(FromNat(a), k), b)
    IN  RoundPack(FALSE, qr.q, -k, qr.r # 0)

\* x < y, x <= y, x == y as Python compares floats: false when either is NaN
FLess(x, y) ==
    IF x.nan \/ y.nan THEN FALSE
    ELSE IF x.m = <<>> /\ y.m = <<>> THEN FALSE
    ELSE IF x.m = <<>> THEN ~y.neg
    ELSE IF y.m = <<>> THEN x.neg
    ELSE IF x.neg # y.neg THEN x.neg
    ELSE LET c == IF x.e = y.e THEN BigCmp(x.m, y.m)
                  ELSE IF x.e < y.e THEN -1 ELSE 1
         IN  IF x.neg THEN c > 0 ELSE c < 0

FEq(x, y) == ~x.nan /\ ~y.nan /\ x = y

FLeq(x, y) == FLess(x, y) \/ FEq(x, y)

(***************************************************************************)
(* Python values.  None is <<>> and a present value v is <<v>>; a dict is  *)
(* a function on its keys; a str is a sequence of characters.  A stored    *)
(* document holds each field as None or Some(value).                       *)
(***************************************************************************)
None    == <<>>
Some(v) == <<v>>

\* how a call ends: with a value, or with an exception
Returned(value) == [kind |-> "return", value |-> value]
Raised(exc, message) == [kind |-> "raise", exc |-> exc, message |-> message]

\* dict.get(k, dflt)
Get(d, k, dflt) == IF k \in DOMAIN d THEN d[k] ELSE dflt

ToSet(s) == {s[i] : i \in 1..Len(s)}

Reverse(s) == [i \in 1..Len(s) |-> s[Len(s) + 1 - i]]

MinOf(S) == CHOOSE x \in S : \A y \in S : x <= y
MaxOf(S) == CHOOSE x \in S : \A y \in S : y <= x

(***************************************************************************)
(* config.py                                                               *)
(***************************************************************************)
\* the float literals 0.65, 0.20, 0.10, 0.05: the floats nearest to them
SEMANTIC_WEIGHT      == FDivInt(65, 100)
GENRE_OVERLAP_WEIGHT == FDivInt(20, 100)
POPULARITY_WEIGHT    == FDivInt(10, 100)
RATING_WEIGHT        == FDivInt(5, 100)

(***************************************************************************)
(* engine/hybrid_ranker.py                                                 *)
(***************************************************************************)
\* np.array(values) as float64: numpy turns None into NaN
ToFloat(v) == IF v = None THEN NaN ELSE FromInt(v[1])

\* a scaler that maps a constant array to the middle of the range
MinMaxScaleMidpoint(values) ==
    LET nums == {values[i][1] : i \in {j \in 1..Len(values) : values[j] # None}}
    IN  IF nums = {} THEN [i \in 1..Len(values) |-> NaN]
        ELSE LET data_min   == MinOf(nums)
                 data_range == MaxOf(nums) - data_min
                 scale_     == FDivInt(1, IF data_range = 0 THEN 1 ELSE data_range)
                 min_       == FSub(FZero, FMul(FromInt(data_min), scale_))
             IN  [i \in 1..Len(values) |->
                     IF data_range = 0 /\ values[i] # None THEN Dyadic(1, 1)
                     ELSE FAdd(FMul(ToFloat(values[i]), scale_), min_)]

\* MinMaxScaler().fit_transform: data_min and data_max ignore NaN,
\* scale_ = (1 - 0) / (data_max - data_min) with a zero range replaced by 1,
\* min_ = 0 - data_min * scale_, and each x becomes x * scale_ + min_
MinMaxScale(values) ==
    LET nums == {values[i][1] : i \in {j \in 1..Len(values) : values[j] # None}}
    IN  IF nums = {} THEN [i \in 1..Len(values) |-> NaN]
        ELSE LET data_min   == MinOf(nums)
                 data_max   == MaxOf(nums)
                 data_range == data_max - data_min
                 scale_     == FDivInt(1, IF data_range = 0 THEN 1 ELSE data_range)
                 min_       == FSub(FZero, FMul(FromInt(data_min), scale_))
             IN  [i \in 1..Len(values) |->
                     FAdd(FMul(ToFloat(values[i]), scale_), min_)]

normalize_values(values) ==
    IF values = <<>> THEN <<>> ELSE MinMaxScale(values)

\* an overlap that counts list entries, repeated genres included
calculate_genre_overlap_lists(genres_a, genres_b) ==
    IF genres_a = <<>> \/ genres_b = <<>> THEN FZero
    ELSE LET intersection ==
                 Cardinality({i \in 1..Len(genres_a) : genres_a[i] \in ToSet(genres_b)})
             union == Len(genres_a) + Len(genres_b) - intersection
         IN  IF union > 0 THEN FDivInt(intersection, union) ELSE FZero

calculate_genre_overlap(genres_a, genres_b) ==
    IF genres_a = <<>> \/ genres_b = <<>> THEN FZero
    ELSE LET set_a        == ToSet(genres_a)
             set_b        == ToSet(genres_b)
             intersection == Cardinality(set_a \cap set_b)
             union        == Cardinality(set_a \cup set_b)
         IN  IF union > 0 THEN FDivInt(intersection, union) ELSE FZero

\* x[0] < y[0] on (score, doc) tuples: the comparison sorted() makes
KeyLess(x, y) == FLess(x[1], y[1])

\* list.sort's count_run: the length of the run that starts the list, and
\* whether it is strictly descending
RECURSIVE RunEnd(_, _, _)
RunEnd(s, i, desc) ==
    IF i > Len(s) THEN i - 1
    ELSE IF KeyLess(s[i], s[i - 1]) = desc THEN RunEnd(s, i + 1, desc)
    ELSE i - 1

CountRun(s) ==
    IF Len(s) = 1 THEN [n |-> 1, desc |-> FALSE]
    ELSE LET desc == KeyLess(s[2], s[1])
         IN  [n |-> RunEnd(s, 3, desc), desc |-> desc]

\* the place binarysort finds for pivot in s[l+1 .. r] (0-based l, r)
RECURSIVE BinarySearch(_, _, _, _)
BinarySearch(s, pivot, l, r) ==
    LET p  == l + (r - l) \div 2
        l2 == IF KeyLess(pivot, s[p + 1]) THEN l ELSE p + 1
        r2 == IF KeyLess(pivot, s[p + 1]) THEN p ELSE r
    IN  IF l2 < r2 THEN BinarySearch(s, pivot, l2, r2) ELSE l2

\* list.sort's binarysort: s[1 .. start-1] is sorted; insert the rest
RECURSIVE BinarySort(_, _)
BinarySort(s, start) ==
    IF start > Len(s) THEN s
    ELSE LET pivot == s[start]
             l     == BinarySearch(s, pivot, 0, start - 1)
         IN  BinarySort(SubSeq(s, 1, l) \o <<pivot>> \o SubSeq(s, l + 1, start - 1)
                            \o SubSeq(s, start + 1, Len(s)),
                        start + 1)

\* sorted(s, key=lambda x: x[0], reverse=True) for fewer than 64 items (the
\* engine ranks at most DEFAULT_SEARCH_K = 50): the list is reversed, its
\* first run is found and the rest inserted by binary search, and the list
\* is reversed again
SortedDescending(s) ==
    IF Len(s) < 2 THEN s
    ELSE LET r   == Reverse(s)
             run == CountRun(r)
             r2  == IF run.desc
                    THEN Reverse(SubSeq(r, 1, run.n)) \o SubSeq(r, run.n + 1, Len(r))
                    ELSE r
         IN  Reverse(BinarySort(r2, run.n + 1))

\* the weights given to the wrong metadata signals
TotalScoreSwapped(candidate, genre_overlap, pop_norm, rating_norm) ==
    FAdd(FAdd(FAdd(FMul(SEMANTIC_WEIGHT, candidate["semantic"]),
                   FMul(GENRE_OVERLAP_WEIGHT, genre_overlap)),
              FMul(RATING_WEIGHT, pop_norm)),
         FMul(POPULARITY_WEIGHT, rating_norm))

\* the weighted combination of one candidate
TotalScore(candidate, genre_overlap, pop_norm, rating_norm) ==
    FAdd(FAdd(FAdd(FMul(SEMANTIC_WEIGHT, candidate["semantic"]),
                   FMul(GENRE_OVERLAP_WEIGHT, genre_overlap)),
              FMul(POPULARITY_WEIGHT, pop_norm)),
         FMul(RATING_WEIGHT, rating_norm))

\* the list `ranked` before it is sorted: a (total_score, doc) per candidate
ScoredCandidates(candidates, reference_genres) ==
    LET popularity_scores ==
            [i \in 1..Len(candidates) |-> Get(candidates[i], "popularity", Some(0))]
        rating_scores ==
            [i \in 1..Len(candidates) |-> Get(candidates[i], "rating", Some(0))]
        normalized_popularity == normalize_values(popularity_scores)
        normalized_rating     == normalize_values(rating_scores)
    IN  [i \in 1..Len(candidates) |->
            <<TotalScore(candidates[i],
                         calculate_genre_overlap(reference_genres,
                             Get(candidates[i], "genres", <<>>)),
                         normalized_popularity[i],
                         normalized_rating[i]),
              candidates[i]["doc"]>>]

\* a ranker that keeps only the best two
rank_candidates_truncating(candidates, reference_genres) ==
    LET full == SortedDescending(ScoredCandidates(candidates, reference_genres))
    IN  SubSeq(full, 1, IF Len(full) < 2 THEN Len(full) ELSE 2)

\* a ranker that returns the best result in the last place too
rank_candidates_repeating(candidates, reference_genres) ==
    LET full == SortedDescending(ScoredCandidates(candidates, reference_genres))
    IN  [j \in 1..Len(full) |-> IF j = Len(full) THEN full[1] ELSE full[j]]

rank_candidates(candidates, reference_genres) ==
    IF candidates = <<>> THEN <<>>
    ELSE SortedDescending(ScoredCandidates(candidates, reference_genres))

(***************************************************************************)
(* Python str: a sequence of characters.  A genre or tag name counts as    *)
(* one character of a text.                                                *)
(***************************************************************************)
\* str.lower()
LowerChar(c) == CASE c = "A" -> "a" [] c = "B" -> "b" [] OTHER -> c
Lower(str) == [i \in 1..Len(str) |-> LowerChar(str[i])]

IsSpace(c) == c \in {" ", "\t", "\n"}

RECURSIVE LStrip(_)
LStrip(str) ==
    IF str # <<>> /\ IsSpace(Head(str)) THEN LStrip(Tail(str)) ELSE str

\* strips nothing
StripNothing(str) == str

\* str.strip()
Strip(str) == Reverse(LStrip(Reverse(LStrip(str))))

\* needle in hay
Contains(needle, hay) ==
    \E i \in 0..(Len(hay) - Len(needle)) : SubSeq(hay, i + 1, i + Len(needle)) = needle

\* sep.join(strs)
RECURSIVE Join(_, _)
Join(sep, strs) ==
    IF strs = <<>> THEN <<>>
    ELSE IF Len(strs) = 1 THEN strs[1]
    ELSE strs[1] \o sep \o Join(sep, Tail(strs))

\* whether a Python value (None or a str) is true
Truthy(v) == v # None /\ v # Some(<<>>)

\* (v or "")
OrEmpty(v) == IF Truthy(v) THEN v[1] ELSE <<>>

\* cuts nothing off
TakeAll(xs, n) == xs

\* xs[:n]; a negative n counts from the end
Take(xs, n) ==
    IF n >= 0 THEN SubSeq(xs, 1, IF n < Len(xs) THEN n ELSE Len(xs))
    ELSE SubSeq(xs, 1, IF Len(xs) + n > 0 THEN Len(xs) + n ELSE 0)

(***************************************************************************)
(* engine/text_builder.py                                                  *)
(***************************************************************************)
\* " ".join(names) for a list of genre or tag names
JoinNames(names) == Join(<<" ">>, [i \in 1..Len(names) |-> <<names[i]>>])

\* the text of a document whose lists are not null
BuildParts(doc, genres, tags) ==
    LET parts ==
            << Get(doc, "title_romaji", Some(<<>>)),
               Get(doc, "title_english", Some(<<>>)),
               Some(JoinNames(genres)),
               Some(JoinNames(tags)),
               Get(doc, "description", Some(<<>>)) >>
        kept == SelectSeq(parts, Truthy)
    IN  Join(<<" ">>, [i \in 1..Len(kept) |-> kept[i][1]])

\* build_text(doc): the text it returns, or the TypeError of " ".join(None)
\* when the document's genres or tags are null
build_text(doc) ==
    LET genres == Get(doc, "genres", Some(<<>>))
        tags   == Get(doc, "tags", Some(<<>>))
    IN  IF genres = None \/ tags = None
        THEN Raised("TypeError", <<"can only join an iterable">>)
        ELSE Returned(BuildParts(doc, genres[1], tags[1]))

(***************************************************************************)
(* engine/recommender.py                                                   *)
(***************************************************************************)
DEFAULT_SEARCH_K == 50
DEFAULT_RESULTS_N == 10

\* what index.search reports in the places it has no neighbour for: the
\* position -1 with the score -FLT_MAX
NoNeighbour == <<-1, RoundPack(TRUE, FromNat(2 ^ 24 - 1), 104, FALSE)>>

\* documents[idx] for a Python index idx, which counts from the end when
\* negative
AtIndex(docs, idx) == IF idx < 0 THEN docs[Len(docs) + idx + 1] ELSE docs[idx + 1]

\* a stored list as the ranker receives it: the list, or None, which the
\* ranker's "not genres" test takes for the empty list
ListValue(v) == IF v = None THEN None ELSE v[1]

\* the loop of _search_similar over what index.search found: a sequence of
\* <<position, score>>
RECURSIVE CandidatesOf(_, _)
CandidatesOf(docs, found) ==
    IF found = <<>> THEN <<>>
    ELSE LET idx   == found[1][1]
             score == found[1][2]
             rest  == CandidatesOf(docs, Tail(found))
         IN  IF idx < Len(docs)
             THEN LET doc == AtIndex(docs, idx)
                  IN  << [doc        |-> doc,
                          semantic   |-> score,
                          genres     |-> ListValue(Get(doc, "genres", Some(<<>>))),
                          popularity |-> Get(doc, "popularity", Some(0)),
                          rating     |-> Get(doc, "average_score", Some(0))] >> \o rest
             ELSE rest

\* the test of by_title's loop: the lowercased title is in the lowercased
\* title_romaji or title_english
TitleMatches(title, doc) ==
    \/ Contains(Lower(title), Lower(OrEmpty(Get(doc, "title_romaji", None))))
    \/ Contains(Lower(title), Lower(OrEmpty(Get(doc, "title_english", None))))

\* the last matching document instead of the first
FindReferenceLast(docs, title, i) ==
    LET hits == {j \in i..Len(docs) : TitleMatches(title, docs[j])}
    IN  IF hits = {} THEN None ELSE Some(docs[CHOOSE j \in hits : \A h \in hits : h <= j])

\* the first document of the store when none matches
FindReferenceOrFirst(docs, title, i) ==
    LET hits == {j \in i..Len(docs) : TitleMatches(title, docs[j])}
    IN  IF hits # {} THEN Some(docs[CHOOSE j \in hits : \A h \in hits : j <= h])
        ELSE IF docs = <<>> THEN None ELSE Some(docs[1])

\* by_title's loop: the first matching document, or None
RECURSIVE FindReference(_, _, _)
FindReference(docs, title, i) ==
    IF i > Len(docs) THEN None
    ELSE IF TitleMatches(title, docs[i]) THEN Some(docs[i])
    ELSE FindReference(docs, title, i + 1)

(***************************************************************************)
(* Bounds and input domains                                                *)
(***************************************************************************)
MaxLen      == 3    \* longest array given to normalize_values
MaxVal      == 6    \* largest popularity or rating in such an array
MaxGenreLen == 3    \* longest genre list given to calculate_genre_overlap
MaxCands    == 3    \* longest candidate list given to rank_candidates

SeqsUpTo(S, n) == UNION {[1..k -> S] : k \in 0..n}

Genres == {"Action", "Adventure", "Comedy", "Drama"}

\* a popularity or average_score: null or a non-negative integer
Values == {None} \cup {Some(v) : v \in 0..MaxVal}

\* candidates as _search_similar builds them: a semantic score and the
\* document's genres, popularity and average_score, either of the last two
\* possibly null; and one as a caller of rank_candidates may pass it,
\* without the optional keys
RankSemantics == {Dyadic(1, 1), Dyadic(3, 2)}

RankMetadata ==
    { [genres |-> <<>>,                  popularity |-> Some(0), rating |-> Some(0)],
      [genres |-> <<"Action">>,          popularity |-> Some(2), rating |-> Some(1)],
      [genres |-> <<"Action", "Drama">>, popularity |-> Some(1), rating |-> Some(0)],
      [genres |-> <<>>,                  popularity |-> None,    rating |-> Some(1)],
      [genres |-> <<"Action">>,          popularity |-> Some(0), rating |-> None] }

CandidateFields ==
    { [k \in DOMAIN m \cup {"semantic"} |-> IF k = "semantic" THEN sem ELSE m[k]] :
         sem \in RankSemantics, m \in RankMetadata }
        \cup {[semantic |-> Dyadic(1, 1)]}

\* the candidate at position i carries document i
WithDocs(fs) ==
    [i \in 1..Len(fs) |->
        [k \in DOMAIN fs[i] \cup {"doc"} |-> IF k = "doc" THEN i ELSE fs[i][k]]]

RankReferences == {<<>>, <<"Action", "Comedy">>}

(***************************************************************************)
(* normalize_values applied to every array within the bounds               *)
(***************************************************************************)
InitNorm ==
    /\ pc = "ready"
    /\ args \in [values : SeqsUpTo(Values, MaxLen)]
    /\ ret = <<>>
    /\ documents = <<>> /\ ntotal = 0 /\ reference_doc = None /\ calls = <<>>
    /\ earlier = "none" /\ store = <<>> /\ embeddings_file = None /\ index_file = None
    /\ NoCallersNoDashboard

Normalize ==
    /\ pc = "ready"
    /\ ret' = normalize_values(args.values)
    /\ pc' = "done"
    /\ UNCHANGED <<args, documents, ntotal, reference_doc, calls, earlier,
                   store, embeddings_file, index_file>>
    /\ UNCHANGED <<threads, state, engine, key>>

SpecNorm == InitNorm /\ [][Normalize]_vars

(***************************************************************************)
(* calculate_genre_overlap applied to every pair of genre lists            *)
(***************************************************************************)
InitGenre ==
    /\ pc = "ready"
    /\ args \in [genres_a : SeqsUpTo(Genres, MaxGenreLen),
                  genres_b : SeqsUpTo(Genres, MaxGenreLen)]
    /\ ret = <<>>
    /\ documents = <<>> /\ ntotal = 0 /\ reference_doc = None /\ calls = <<>>
    /\ earlier = "none" /\ store = <<>> /\ embeddings_file = None /\ index_file = None
    /\ NoCallersNoDashboard

GenreOverlap ==
    /\ pc = "ready"
    /\ ret' = calculate_genre_overlap(args.genres_a, args.genres_b)
    /\ pc' = "done"
    /\ UNCHANGED <<args, documents, ntotal, reference_doc, calls, earlier,
                   store, embeddings_file, index_file>>
    /\ UNCHANGED <<threads, state, engine, key>>

SpecGenre == InitGenre /\ [][GenreOverlap]_vars

(***************************************************************************)
(* rank_candidates applied to every candidate list within the bounds       *)
(***************************************************************************)
InitRank ==
    /\ pc = "ready"
    /\ args \in [candidates :
                     {WithDocs(fs) : fs \in SeqsUpTo(CandidateFields, MaxCands)},
                  reference_genres : RankReferences]
    /\ ret = <<>>
    /\ documents = <<>> /\ ntotal = 0 /\ reference_doc = None /\ calls = <<>>
    /\ earlier = "none" /\ store = <<>> /\ embeddings_file = None /\ index_file = None
    /\ NoCallersNoDashboard

Rank ==
    /\ pc = "ready"
    /\ ret' = rank_candidates(args.candidates, args.reference_genres)
    /\ pc' = "done"
    /\ UNCHANGED <<args, documents, ntotal, reference_doc, calls, earlier,
                   store, embeddings_file, index_file>>
    /\ UNCHANGED <<threads, state, engine, key>>

SpecRank == InitRank /\ [][Rank]_vars

(***************************************************************************)
(* rank_candidates on longer lists of plainer candidates                   *)
(***************************************************************************)
MaxDeepCands == 7

DeepCandidateFields ==
    [semantic : RankSemantics, genres : {<<>>},
     popularity : {None, Some(0)}, rating : {Some(0)}]

InitRankDeep ==
    /\ pc = "ready"
    /\ args \in [candidates :
                     {WithDocs(fs) : fs \in SeqsUpTo(DeepCandidateFields, MaxDeepCands)},
                  reference_genres : {<<>>}]
    /\ ret = <<>>
    /\ documents = <<>> /\ ntotal = 0 /\ reference_doc = None /\ calls = <<>>
    /\ earlier = "none" /\ store = <<>> /\ embeddings_file = None /\ index_file = None
    /\ NoCallersNoDashboard

SpecRankDeep == InitRankDeep /\ [][Rank]_vars

(***************************************************************************)
(* The engine: a Recommender over a corpus and an index, serving the       *)
(* requests of the interface's loop one at a time                          *)
(***************************************************************************)
MaxDocs == 2    \* most documents in the corpus, and most vectors in the index
MaxN    == 2    \* largest n asked for

\* documents as fetch_data.py stores them: one with every field, one with
\* null title_romaji, genres, description and popularity, one with neither
\* title
DocPool ==
    { [title_romaji |-> Some(<<"A", "b">>), title_english |-> Some(<<"b">>),
       genres |-> Some(<<"Action", "Drama">>), tags |-> Some(<<"Comedy">>),
       description |-> Some(<<"a">>),
       popularity |-> Some(2), average_score |-> Some(1)],
      [title_romaji |-> None, title_english |-> Some(<<"a", "B", " ", "a">>),
       genres |-> None, tags |-> Some(<<>>),
       description |-> None,
       popularity |-> None, average_score |-> Some(0)],
      [genres |-> Some(<<"Comedy">>), popularity |-> Some(1)] }

\* what a user types as a title
Queries == { <<>>, <<" ">>, <<"\t", " ">>, <<"a">>, <<"B">>, <<" ", "a">>, <<"b", "b">> }

\* what a user types as a description
TextQueries == { <<>>, <<"\t", " ">>, <<"a">> }

\* the scores the index reports
SearchScores == {Dyadic(1, 1), Dyadic(3, 2)}

\* what index.search(query_vector, k) may answer for k > 0: the positions
\* of min(k, ntotal) different vectors, best score first, then NoNeighbour
\* up to k places
SearchAnswers(k) ==
    LET m == IF k < ntotal THEN k ELSE ntotal IN
    { [i \in 1..k |-> IF i <= m THEN <<pos[i], sc[i]>> ELSE NoNeighbour] :
        pos \in {f \in [1..m -> 0..(ntotal - 1)] :
                    \A i, j \in 1..m : i # j => f[i] # f[j]},
        sc  \in {g \in [1..m -> SearchScores] :
                    \A i \in 1..(m - 1) : FLeq(g[i + 1], g[i])} }

\* index.search(query_vector, k) of a working index.  faiss refuses a
\* vector that has not the index's dimension and a negative k; it either
\* refuses k = 0 or answers nothing
IndexSearch(query_vector, k) ==
    IF query_vector = "empty" THEN {Raised("AssertionError", <<>>)}
    ELSE IF k < 0 THEN {Raised("AssertionError", <<>>), Raised("ValueError", <<>>)}
    ELSE IF k = 0 THEN {Raised("AssertionError", <<>>), Returned(<<>>)}
    ELSE {Returned(found) : found \in SearchAnswers(k)}

\* the failures of the embedding model and of the index
EncodeFailure == Raised("RuntimeError", <<"encode failed">>)
IndexFailure  == Raised("RuntimeError", <<"search failed">>)

\* self.model.encode([text]): a vector of the model's dimension, or a failure
EncodeOutcomes == {Returned("vector"), EncodeFailure}

\* _search_similar(query_vector, k): every outcome the index allows, each
\* with the k asked of the index and the index's answer; faulty tells
\* whether the index may fail
_search_similar(query_vector, k, faulty) ==
    LET kk == IF k < Len(documents) THEN k ELSE Len(documents) IN
    { [requested |-> k, k |-> kk, answer |-> a,
       result |-> IF a.kind = "raise" THEN a
                  ELSE Returned(CandidatesOf(documents, a.value))] :
        a \in IndexSearch(query_vector, kk) \cup (IF faulty THEN {IndexFailure} ELSE {}) }

Encode(text) == [fn |-> "encode", text |-> text]
Search(s) ==
    [fn |-> "search", requested |-> s.requested, k |-> s.k, answer |-> s.answer,
     candidates |-> IF s.result.kind = "raise" THEN <<>> ELSE s.result.value]

\* a by_title that hands the ranker no reference genres
NoReferenceGenres(doc) == <<>>

\* reference_doc.get("genres", [])
ReferenceGenres(doc) == ListValue(Get(doc, "genres", Some(<<>>)))

\* a request that shortens the loaded document list
EngineDropsFirst ==
    /\ documents' = (IF documents = <<>> THEN <<>> ELSE Tail(documents))
    /\ ntotal' = ntotal

\* a request whose failure empties the engine
EngineLostOnFailure ==
    IF ret'.kind = "raise" /\ calls' # <<>>
    THEN documents' = <<>> /\ ntotal' = 0
    ELSE UNCHANGED <<documents, ntotal>>

\* by_text and by_title assign no attribute of the engine
EngineUnchanged == UNCHANGED <<documents, ntotal>>

\* the history of the engine after a request that made these calls and
\* ended this way
EarlierAfter(made, outcome) ==
    IF made # <<>> /\ outcome.kind = "raise" THEN "failed"
    ELSE IF earlier = "none" THEN "served" ELSE earlier

InitEngine ==
    /\ NoCallersNoDashboard
    /\ pc = "serving"
    /\ documents \in SeqsUpTo(DocPool, MaxDocs)
    /\ ntotal \in 1..MaxDocs
    /\ args = <<>>
    /\ ret = <<>>
    /\ reference_doc = None
    /\ calls = <<>>
    /\ earlier = "none"
    /\ store = documents
    /\ embeddings_file = Some(ntotal)
    /\ index_file = Some(ntotal)

RankCall(candidates, reference_genres, ranked) ==
    [fn |-> "rank", candidates |-> candidates,
     reference_genres |-> reference_genres, ranked |-> ranked]

\* the rest of by_text and by_title from the encoding of text on, ranking
\* with reference_genres
EncodeSearchRank(text, reference_genres, n) ==
    \E vector \in EncodeOutcomes :
        IF vector.kind = "raise"
        THEN /\ calls' = <<Encode(text)>>
             /\ ret' = vector
        ELSE \E s \in _search_similar(vector.value, DEFAULT_SEARCH_K, TRUE) :
             IF s.result.kind = "raise"
             THEN /\ calls' = <<Encode(text), Search(s)>>
                  /\ ret' = s.result
             ELSE /\ calls' = <<Encode(text), Search(s),
                                RankCall(s.result.value, reference_genres,
                                         rank_candidates(s.result.value, reference_genres))>>
                  /\ ret' = Returned(Take(calls'[3].ranked, n))

by_text(query, n) ==
    /\ pc = "serving"
    /\ args' = [method |-> "by_text", query |-> query, n |-> n]
    /\ reference_doc' = None
    /\ IF Strip(query) = <<>>
       THEN /\ calls' = <<>>
            /\ ret' = Returned(<<>>)
       ELSE EncodeSearchRank(query, <<>>, n)
    /\ earlier' = EarlierAfter(calls', ret')
    /\ pc' = "replied"
    /\ EngineUnchanged
    /\ UNCHANGED <<store, embeddings_file, index_file>>

by_title(title, n) ==
    /\ pc = "serving"
    /\ args' = [method |-> "by_title", title |-> title, n |-> n]
    /\ IF Strip(title) = <<>>
       THEN /\ reference_doc' = None
            /\ calls' = <<>>
            /\ ret' = Returned(<<>>)
       ELSE LET ref == FindReference(documents, title, 1) IN
            /\ reference_doc' = ref
            /\ IF ref = None
               THEN /\ calls' = <<>>
                    /\ ret' = Raised("ValueError",
                                     <<"Title '">> \o title \o <<"' not found in database">>)
               ELSE LET ref_text == build_text(ref[1]) IN
                    IF ref_text.kind = "raise"
                    THEN /\ calls' = <<>>
                         /\ ret' = ref_text
                    ELSE EncodeSearchRank(ref_text.value, ReferenceGenres(ref[1]), n)
    /\ earlier' = EarlierAfter(calls', ret')
    /\ pc' = "replied"
    /\ EngineUnchanged
    /\ UNCHANGED <<store, embeddings_file, index_file>>

\* a caller that has the engine to itself calls by_text, by_title
CallByText(query, n) == by_text(query, n) /\ UNCHANGED <<threads, state, engine, key>>
CallByTitle(title, n) == by_title(title, n) /\ UNCHANGED <<threads, state, engine, key>>

\* the interface shows the results and asks for the next request
NextRequest ==
    /\ pc = "replied"
    /\ pc' = "serving"
    /\ args' = <<>>
    /\ ret' = <<>>
    /\ reference_doc' = None
    /\ calls' = <<>>
    /\ UNCHANGED <<documents, ntotal, earlier, store, embeddings_file, index_file>>
    /\ UNCHANGED <<threads, state, engine, key>>

Next ==
    \/ \E query \in TextQueries, n \in (-1)..MaxN : CallByText(query, n)
    \/ \E title \in Queries, n \in (-1)..MaxN : CallByTitle(title, n)
    \/ NextRequest

Spec == InitEngine /\ [][Next]_vars

(***************************************************************************)
(* _search_similar applied to every vector and k within the bounds, on an  *)
(* engine whose index works                                                *)
(***************************************************************************)
MaxK == 3    \* largest k asked of _search_similar

InitRetrieve ==
    /\ NoCallersNoDashboard
    /\ pc = "ready"
    /\ documents \in SeqsUpTo(DocPool, MaxDocs)
    /\ ntotal \in 1..MaxDocs
    /\ args \in [query_vector : {"vector", "empty"}, k : (-1)..MaxK]
    /\ ret = <<>>
    /\ reference_doc = None
    /\ calls = <<>>
    /\ earlier = "none"
    /\ store = documents
    /\ embeddings_file = Some(ntotal)
    /\ index_file = Some(ntotal)

Retrieve ==
    /\ pc = "ready"
    /\ \E s \in _search_similar(args.query_vector, args.k, FALSE) :
          /\ calls' = <<Search(s)>>
          /\ ret' = s.result
    /\ pc' = "done"
    /\ UNCHANGED <<args, documents, ntotal, reference_doc, earlier,
                   store, embeddings_file, index_file>>
    /\ UNCHANGED <<threads, state, engine, key>>

SpecRetrieve == InitRetrieve /\ [][Retrieve]_vars

(***************************************************************************)
(* From an empty database to a serving engine: the import, the two build   *)
(* scripts, the construction of the engine and its requests.  The scripts  *)
(* run while no interface is up; an engine reads neither the database nor  *)
(* the files again once it is constructed.                                 *)
(***************************************************************************)
InitLifecycle ==
    /\ NoCallersNoDashboard
    /\ pc = "down"
    /\ store = <<>>
    /\ embeddings_file = None
    /\ index_file = None
    /\ documents = <<>>
    /\ ntotal = 0
    /\ args = <<>>
    /\ ret = <<>>
    /\ reference_doc = None
    /\ calls = <<>>
    /\ earlier = "none"

\* db/mongo.py insert_documents, as json_to_database.py calls it
insert_documents(items) ==
    /\ pc = "down"
    /\ items # <<>>
    /\ Len(store) + Len(items) <= MaxDocs
    /\ store' = store \o items
    /\ args' = [method |-> "insert_documents"]
    /\ ret' = Returned(None)
    /\ UNCHANGED <<pc, documents, ntotal, reference_doc, calls, earlier,
                   embeddings_file, index_file>>
    /\ UNCHANGED <<threads, state, engine, key>>

\* scripts/build_embeddings.py main: writes one embedding for each document
\* of the database, unless there is none or build_text raises
build_embeddings ==
    /\ pc = "down"
    /\ args' = [method |-> "build_embeddings"]
    /\ IF store = <<>>
       THEN /\ ret' = Returned(None)
            /\ UNCHANGED embeddings_file
       ELSE IF \E i \in 1..Len(store) : build_text(store[i]).kind = "raise"
       THEN /\ ret' = Raised("TypeError", <<"can only join an iterable">>)
            /\ UNCHANGED embeddings_file
       ELSE /\ ret' = Returned(None)
            /\ embeddings_file' = Some(Len(store))
    /\ UNCHANGED <<pc, documents, ntotal, reference_doc, calls, earlier,
                   store, index_file>>
    /\ UNCHANGED <<threads, state, engine, key>>

\* scripts/build_index.py main: an index of the vectors of the embeddings
\* file, when there is one
build_index ==
    /\ pc = "down"
    /\ args' = [method |-> "build_index"]
    /\ ret' = Returned(None)
    /\ index_file' = IF embeddings_file = None THEN index_file ELSE embeddings_file
    /\ UNCHANGED <<pc, documents, ntotal, reference_doc, calls, earlier,
                   store, embeddings_file>>
    /\ UNCHANGED <<threads, state, engine, key>>

\* what can fail at construction besides a missing file: the loading of the
\* embedding model and the reading of the database
ConstructionFaults == {"none", "model", "documents"}

\* how Recommender.__init__ ends.  open() raises FileNotFoundError for a
\* missing embeddings file, which __init__ raises again as
\* FileNotFoundError; faiss.read_index raises RuntimeError for a missing
\* index file, and every other exception becomes a RuntimeError
InitOutcome(fault) ==
    IF embeddings_file = None
    THEN Raised("FileNotFoundError", <<"Required data file not found">>)
    ELSE IF index_file = None \/ fault # "none"
    THEN Raised("RuntimeError", <<"Failed to initialize recommender">>)
    ELSE Returned(None)

\* engine = Recommender(), in cli.py main
Construct(fault) ==
    /\ pc = "down"
    /\ args' = [method |-> "Recommender", fault |-> fault]
    /\ ret' = InitOutcome(fault)
    /\ IF InitOutcome(fault).kind = "return"
       THEN /\ documents' = store
            /\ ntotal' = index_file[1]
            /\ pc' = "serving"
       ELSE UNCHANGED <<pc, documents, ntotal>>
    /\ UNCHANGED <<reference_doc, calls, earlier, store, embeddings_file, index_file>>
    /\ UNCHANGED <<threads, state, engine, key>>

\* the user quits the interface
Quit ==
    /\ pc = "serving"
    /\ pc' = "down"
    /\ documents' = <<>>
    /\ ntotal' = 0
    /\ earlier' = "none"
    /\ args' = [method |-> "quit"]
    /\ ret' = <<>>
    /\ reference_doc' = None
    /\ calls' = <<>>
    /\ UNCHANGED <<store, embeddings_file, index_file>>
    /\ UNCHANGED <<threads, state, engine, key>>

\* the requests made of an engine built this way
ServedQueries == { <<"a">> }

NextLifecycle ==
    \/ \E doc \in DocPool : insert_documents(<<doc>>)
    \/ build_embeddings
    \/ build_index
    \/ \E fault \in ConstructionFaults : Construct(fault)
    \/ \E query \in ServedQueries : CallByText(query, MaxN)
    \/ \E title \in ServedQueries : CallByTitle(title, MaxN)
    \/ NextRequest
    \/ Quit

SpecLifecycle == InitLifecycle /\ [][NextLifecycle]_vars

(***************************************************************************)
(* Properties of rank_candidates                                           *)
(***************************************************************************)
\* where the candidate given at position i stands in the result
PlaceOf(i) == CHOOSE j \in 1..Len(ret) : ret[j][2] = args.candidates[i]["doc"]

\* C1: rank_candidates returns as many results as it was given candidates,
\* the empty list included; it cuts nothing off.
RankKeepsLength ==
    pc = "done" => Len(ret) = Len(args.candidates)

RankKeepsLengthWitness ==
    /\ pc = "done"
    /\ Len(args.candidates) = MaxCands
    /\ Len(ret) = MaxCands

\* C2: the results are in descending order of score: each score is at
\* least the score that follows it.
RankDescending ==
    pc = "done" =>
        \A j \in 1..(Len(ret) - 1) : FLeq(ret[j + 1][1], ret[j][1])

\* C3: two candidates with the same total score keep their input order.
RankStable ==
    pc = "done" /\ Len(ret) = Len(args.candidates) =>
        \A i, k \in 1..Len(args.candidates) :
            i < k /\ FEq(ret[PlaceOf(i)][1], ret[PlaceOf(k)][1])
                => PlaceOf(i) < PlaceOf(k)

\* C7: the score paired with a candidate's document is
\* 0.65*semantic + 0.20*overlap(reference, genres) + 0.10*popNorm
\* + 0.05*ratingNorm, with popNorm and ratingNorm the candidate's
\* normalized popularity and rating among the candidates of the call.
WeightedSum(semantic, genre, pop, rating) ==
    FAdd(FAdd(FAdd(FMul(FDivInt(65, 100), semantic), FMul(FDivInt(20, 100), genre)),
              FMul(FDivInt(10, 100), pop)),
         FMul(FDivInt(5, 100), rating))

RankScoreFormula ==
    pc = "done" =>
        LET cs       == args.candidates
            popNorm  == normalize_values(
                            [i \in 1..Len(cs) |-> Get(cs[i], "popularity", Some(0))])
            rateNorm == normalize_values(
                            [i \in 1..Len(cs) |-> Get(cs[i], "rating", Some(0))])
        IN  /\ Len(ret) = Len(cs)
            /\ \A i \in 1..Len(cs) :
                   \E j \in 1..Len(ret) :
                      /\ ret[j][2] = cs[i]["doc"]
                      /\ ret[j][1] =
                            WeightedSum(cs[i]["semantic"],
                                calculate_genre_overlap(args.reference_genres,
                                                        Get(cs[i], "genres", <<>>)),
                                popNorm[i], rateNorm[i])

\* a call where all four terms of some score are positive
RankScoreFormulaWitness ==
    /\ pc = "done"
    /\ \E i \in 1..Len(args.candidates) :
          LET c == args.candidates[i]
          IN  /\ DOMAIN c = {"doc", "semantic", "genres", "popularity", "rating"}
              /\ c["genres"] = <<"Action">> /\ args.reference_genres # <<>>
              /\ c["popularity"] = Some(2) /\ c["rating"] = Some(1)
              /\ \E k \in 1..Len(args.candidates) :
                    /\ k # i
                    /\ DOMAIN args.candidates[k] = DOMAIN c
                    /\ args.candidates[k]["popularity"] = Some(0)
                    /\ args.candidates[k]["rating"] = Some(0)
              /\ ret[PlaceOf(i)][1] =
                    WeightedSum(c["semantic"], Dyadic(1, 1), FromInt(1), FromInt(1))

(***************************************************************************)
(* Properties of normalize_values                                          *)
(***************************************************************************)
Numeric(vs)  == \A i \in 1..Len(vs) : vs[i] # None
Constant(vs) == \A i, j \in 1..Len(vs) : vs[i] = vs[j]

\* C4: an array of equal numbers (max = min) is normalized to 0.0 in
\* every place, and the empty array to the empty array.
NormConstantIsZero ==
    pc = "done" =>
        /\ args.values = <<>> => ret = <<>>
        /\ Numeric(args.values) /\ Constant(args.values) =>
              /\ Len(ret) = Len(args.values)
              /\ \A i \in 1..Len(ret) : ret[i] = FZero

\* a constant array of a nonzero number has been normalized
NormConstantIsZeroWitness ==
    /\ pc = "done"
    /\ Len(args.values) = MaxLen
    /\ Constant(args.values)
    /\ args.values[1] = Some(MaxVal)
    /\ ret[1] = FZero

\* C5: an array of numbers that are not all equal is normalized to an
\* array of the same length whose elements are (v - min)/(max - min): all
\* in [0, 1], the minimum at 0.0 and the maximum at 1.0.
NormMinMax ==
    pc = "done" /\ Numeric(args.values) /\ ~Constant(args.values) =>
        LET vs == args.values
            mn == MinOf({vs[i][1] : i \in 1..Len(vs)})
            mx == MaxOf({vs[i][1] : i \in 1..Len(vs)})
        IN  /\ Len(ret) = Len(vs)
            /\ \A i \in 1..Len(vs) :
                  /\ ret[i] = FDivInt(vs[i][1] - mn, mx - mn)
                  /\ FLeq(FZero, ret[i]) /\ FLeq(ret[i], FromInt(1))
                  /\ vs[i][1] = mn => ret[i] = FZero
                  /\ vs[i][1] = mx => ret[i] = FromInt(1)

(***************************************************************************)
(* Properties of calculate_genre_overlap                                   *)
(***************************************************************************)
\* C6: the overlap of two genre lists is the Jaccard similarity of their
\* sets of genres, |A n B| / |A u B|, and 0.0 when either list is empty;
\* it is symmetric and lies in [0, 1]; [Action, Adventure, Comedy] and
\* [Action, Adventure, Drama] overlap by 0.5.
GenreOverlapIsJaccard ==
    pc = "done" =>
        LET A      == {g \in Genres : \E i \in 1..Len(args.genres_a) : args.genres_a[i] = g}
            B      == {g \in Genres : \E i \in 1..Len(args.genres_b) : args.genres_b[i] = g}
            common == Cardinality({g \in Genres : g \in A /\ g \in B})
            either == Cardinality({g \in Genres : g \in A \/ g \in B})
        IN  /\ A = {} \/ B = {} => ret = FZero
            /\ A # {} /\ B # {} => ret = FDivInt(common, either)
            /\ ret = calculate_genre_overlap(args.genres_b, args.genres_a)
            /\ FLeq(FZero, ret) /\ FLeq(ret, FromInt(1))
            /\ args.genres_a = <<"Action", "Adventure", "Comedy">>
                  /\ args.genres_b = <<"Action", "Adventure", "Drama">>
                  => ret = Dyadic(1, 1)

\* lists with a repeated genre have been compared: [Action, Action, Drama]
\* and [Action] share one genre of two
GenreOverlapIsJaccardWitness ==
    /\ pc = "done"
    /\ args.genres_a = <<"Action", "Action", "Drama">>
    /\ args.genres_b = <<"Action">>
    /\ ret = Dyadic(1, 1)

(***************************************************************************)
(* Properties of by_title and by_text                                      *)
(***************************************************************************)
\* the document has the field, not null, and its lowercased value contains
\* the lowercased title
FieldHolds(doc, field, title) ==
    /\ field \in DOMAIN doc
    /\ doc[field] # None
    /\ Contains(Lower(title), Lower(doc[field][1]))

Holds(doc, title) ==
    FieldHolds(doc, "title_romaji", title) \/ FieldHolds(doc, "title_english", title)

Blank(str) == \A i \in 1..Len(str) : str[i] \in {" ", "\t", "\n"}

TitleServed == pc = "replied" /\ args.method = "by_title" /\ ~Blank(args.title)

\* C8: for a title that is not blank, by_title's reference document is the
\* first document of the store whose lowercased title_romaji or
\* title_english contains the lowercased title, an absent or null field
\* never matching: no earlier document matches, later matches are ignored.
FirstMatchIsReference ==
    TitleServed =>
        \A p \in 1..Len(documents) :
            Holds(documents[p], args.title)
                /\ (\A q \in 1..(p - 1) : ~Holds(documents[q], args.title))
            => reference_doc = Some(documents[p])

FirstMatchIsReferenceWitness ==
    /\ TitleServed
    /\ Len(documents) = 2
    /\ documents[1] # documents[2]
    /\ "title_romaji" \in DOMAIN documents[1] /\ documents[1]["title_romaji"] = None
    /\ Holds(documents[1], args.title)
    /\ Holds(documents[2], args.title)
    /\ Lower(args.title) # args.title
    /\ reference_doc = Some(documents[1])

\* C9: when no document's title_romaji or title_english contains a title
\* that is not blank, whatever the case of the letters, by_title raises
\* ValueError with the title in its message, and has called neither the
\* embedding model nor the index.
NoMatchRaisesNotFound ==
    TitleServed /\ (\A p \in 1..Len(documents) : ~Holds(documents[p], args.title))
        => /\ ret.kind = "raise"
           /\ ret.exc = "ValueError"
           /\ Contains(args.title, ret.message)
           /\ calls = <<>>

NoMatchRaisesNotFoundWitness ==
    /\ TitleServed
    /\ Len(documents) = MaxDocs
    /\ \A p \in 1..Len(documents) : ~Holds(documents[p], args.title)
    /\ \E p \in 1..Len(documents) : "title_english" \in DOMAIN documents[p]
    /\ ret.kind = "raise"
    /\ calls = <<>>

\* C10: for an empty or whitespace-only query or title, by_text and
\* by_title return the empty list and raise nothing, whatever the corpus.
BlankReturnsEmpty ==
    /\ pc = "replied" /\ args.method = "by_text" /\ Blank(args.query)
           => ret = Returned(<<>>)
    /\ pc = "replied" /\ args.method = "by_title" /\ Blank(args.title)
           => ret = Returned(<<>>)

BlankReturnsEmptyWitness ==
    /\ pc = "replied"
    /\ args.method = "by_title"
    /\ args.title = <<" ">>
    /\ \E p \in 1..Len(documents) : Holds(documents[p], args.title)
    /\ ret = Returned(<<>>)

(***************************************************************************)
(* Properties of the engine's requests                                     *)
(***************************************************************************)
\* a request that went through ranking
Ranked == pc = "replied" /\ Len(calls) = 3 /\ ret.kind = "return"

\* the ranking of the request's candidates
FullRanking == calls[3].ranked

\* C11: for n >= 0, by_text and by_title return min(n, number of ranked
\* candidates) results, and they are the first results of the ranking of
\* all the candidates retrieved, in its order.
TruncatesAfterRanking ==
    Ranked /\ args.n >= 0 =>
        /\ Len(ret.value) = (IF args.n < Len(FullRanking) THEN args.n ELSE Len(FullRanking))
        /\ \A i \in 1..Len(ret.value) : ret.value[i] = FullRanking[i]
        /\ calls[3].candidates = calls[2].candidates
        /\ Len(FullRanking) = Len(calls[2].candidates)

TruncatesAfterRankingWitness ==
    /\ Ranked
    /\ args.n = 1
    /\ Len(FullRanking) = 2
    /\ FullRanking[1][2] = documents[2]
    /\ documents[1] # documents[2]
    /\ ret.value = <<FullRanking[1]>>

\* C16: by_text hands the ranker an empty reference-genre list, so that the
\* genre overlap of every candidate is 0, by_title hands it the genre list
\* of the reference document it resolved, and both ask _search_similar for
\* DEFAULT_SEARCH_K candidates whatever n is.
RanksWithReferenceGenres ==
    /\ pc = "replied" /\ Len(calls) >= 2 =>
          /\ calls[2].fn = "search"
          /\ calls[2].requested = DEFAULT_SEARCH_K
          /\ DEFAULT_SEARCH_K = 50
    /\ Ranked /\ args.method = "by_text" =>
          /\ calls[3].reference_genres = <<>>
          /\ \A i \in 1..Len(calls[3].candidates) :
                calculate_genre_overlap(calls[3].reference_genres,
                                        calls[3].candidates[i].genres) = FZero
    /\ Ranked /\ args.method = "by_title" =>
          /\ reference_doc # None
          /\ calls[3].reference_genres =
                (IF "genres" \in DOMAIN reference_doc[1]
                 THEN reference_doc[1]["genres"][1] ELSE <<>>)

RanksWithReferenceGenresWitness ==
    /\ Ranked
    /\ args.method = "by_title"
    /\ args.n = 0
    /\ calls[2].requested = 50
    /\ calls[3].reference_genres = <<"Action", "Drama">>
    /\ Len(calls[3].candidates) = 2

(***************************************************************************)
(* Properties of _search_similar                                           *)
(***************************************************************************)
Retrieved == pc = "done" /\ ret.kind = "return"

\* what the index answered: a sequence of <<position, score>>
Found == calls[1].answer.value

\* the answers of the index that name a position of the document list
RECURSIVE ValidFound(_)
ValidFound(found) ==
    IF found = <<>> THEN <<>>
    ELSE (IF found[1][1] >= 0 /\ found[1][1] < Len(documents)
          THEN <<found[1]>> ELSE <<>>) \o ValidFound(Tail(found))

\* C12: the candidates are, in the order of the index's answer, one for
\* each position p the index returned: the document at position p of the
\* loaded list, with the score returned for p as semantic and with that
\* document's genres, popularity and average_score.
ResolvesByPosition ==
    Retrieved =>
        LET valid == ValidFound(Found) IN
        /\ Len(ret.value) = Len(valid)
        /\ \A i \in 1..Len(valid) :
             LET doc == documents[valid[i][1] + 1] IN
             /\ ret.value[i].doc = doc
             /\ ret.value[i].semantic = valid[i][2]
             /\ ret.value[i].genres = (IF "genres" \in DOMAIN doc /\ doc["genres"] # None
                                       THEN doc["genres"][1] ELSE <<>>)
             /\ ret.value[i].popularity = (IF "popularity" \in DOMAIN doc
                                           THEN doc["popularity"] ELSE Some(0))
             /\ ret.value[i].rating = (IF "average_score" \in DOMAIN doc
                                       THEN doc["average_score"] ELSE Some(0))

\* C14: for a k larger than the number of loaded documents, _search_similar
\* asks the index for that number of neighbours, raises nothing and returns
\* at most that many candidates.
ClampsOversizedK ==
    pc = "done" /\ args.query_vector = "vector" /\ args.k > Len(documents) =>
        /\ calls[1].k = Len(documents)
        /\ ret.kind = "return"
        /\ Len(ret.value) <= Len(documents)

\* C15: with an empty query vector or k <= 0, _search_similar returns the
\* empty list and raises nothing.
DegenerateRetrievesNothing ==
    pc = "done" /\ (args.query_vector = "empty" \/ args.k <= 0) =>
        ret = Returned(<<>>)

(***************************************************************************)
(* Properties of construction                                              *)
(***************************************************************************)
Serving == pc \in {"serving", "replied"}

\* C13: whatever the order of imports, builds and constructions, an engine
\* that serves requests has loaded as many documents as its index holds
\* vectors.
ServesOnlyMatchingIndex ==
    Serving => Len(documents) = ntotal

\* C20: a construction that cannot load the embeddings file, the index, the
\* model or the documents raises, FileNotFoundError when a file is missing
\* and RuntimeError otherwise, and leaves no engine; an engine that serves
\* has loaded them all.
FailedConstructionLeavesNoEngine ==
    /\ Serving => /\ embeddings_file # None
                  /\ index_file = Some(ntotal)
                  /\ documents = store
    /\ args # <<>> /\ args.method = "Recommender" =>
         IF embeddings_file = None \/ index_file = None
         THEN pc = "down" /\ ret.kind = "raise" /\ ret.exc = "FileNotFoundError"
         ELSE IF args.fault # "none"
         THEN pc = "down" /\ ret.kind = "raise" /\ ret.exc = "RuntimeError"
         ELSE pc = "serving"

(***************************************************************************)
(* build_text applied to documents whose fields are absent, null, empty    *)
(* or present                                                              *)
(***************************************************************************)
TextFields == {"title_romaji", "title_english", "genres", "tags", "description"}

\* the stored values of a field: null, empty, or with content
TextFieldValues(field) ==
    CASE field = "title_romaji"  -> {None, Some(<<>>), Some(<<"A", "b">>)}
      [] field = "title_english" -> {None, Some(<<>>), Some(<<"b">>)}
      [] field = "genres"        -> {None, Some(<<>>), Some(<<"Action">>),
                                     Some(<<"Action", "Drama">>)}
      [] field = "tags"          -> {None, Some(<<>>), Some(<<"Comedy">>)}
      [] field = "description"   -> {None, Some(<<>>), Some(<<"a", "c">>)}

TextDocs ==
    UNION { { doc \in [present -> UNION {TextFieldValues(f) : f \in TextFields}] :
                \A f \in present : doc[f] \in TextFieldValues(f) } :
            present \in SUBSET TextFields }

InitText ==
    /\ pc = "ready"
    /\ args \in [doc : TextDocs]
    /\ ret = <<>>
    /\ documents = <<>> /\ ntotal = 0 /\ reference_doc = None /\ calls = <<>>
    /\ earlier = "none" /\ store = <<>> /\ embeddings_file = None /\ index_file = None
    /\ NoCallersNoDashboard

BuildText ==
    /\ pc = "ready"
    /\ ret' = build_text(args.doc)
    /\ pc' = "done"
    /\ UNCHANGED <<args, documents, ntotal, reference_doc, calls, earlier,
                   store, embeddings_file, index_file>>
    /\ UNCHANGED <<threads, state, engine, key>>

SpecText == InitText /\ [][BuildText]_vars

(***************************************************************************)
(* Properties of build_text                                                *)
(***************************************************************************)
\* the names of a list with one space between neighbours
RECURSIVE Spaced(_)
Spaced(names) ==
    IF names = <<>> THEN <<>>
    ELSE IF Len(names) = 1 THEN <<names[1]>>
    ELSE <<names[1], " ">> \o Spaced(Tail(names))

\* the text a field contributes: nothing when it is absent, null or empty
FieldText(doc, field) ==
    IF field \notin DOMAIN doc \/ doc[field] = None THEN <<>>
    ELSE IF field \in {"genres", "tags"} THEN Spaced(doc[field][1])
    ELSE doc[field][1]

RECURSIVE PresentFields(_, _)
PresentFields(doc, fields) ==
    IF fields = <<>> THEN <<>>
    ELSE LET text == FieldText(doc, fields[1])
             rest == PresentFields(doc, Tail(fields))
         IN  IF text = <<>> THEN rest
             ELSE IF rest = <<>> THEN text
             ELSE text \o <<" ">> \o rest

\* C17: build_text raises nothing and returns the texts of the fields that
\* are present and non-empty, in the order title_romaji, title_english,
\* genres, tags, description, with one space between neighbours: no space
\* at either end and no two spaces in a row.
BuildsTextOfPresentFields ==
    pc = "done" /\ "doc" \in DOMAIN args =>
        /\ ret.kind = "return"
        /\ ret.value = PresentFields(args.doc, <<"title_romaji", "title_english",
                                                 "genres", "tags", "description">>)
        /\ ret.value # <<>> => ret.value[1] # " " /\ ret.value[Len(ret.value)] # " "
        /\ \A i \in 1..(Len(ret.value) - 1) :
             ~(ret.value[i] = " " /\ ret.value[i + 1] = " ")

(***************************************************************************)
(* Properties of the engine across requests                                *)
(***************************************************************************)
\* the engine holds what a construction over the corpus and the index loads
FreshEngine == documents = store /\ index_file = Some(ntotal)

\* the reply is the one an engine just constructed over the corpus gives to
\* these arguments when the model and the index answer as logged
ReplyOfFreshEngine ==
    LET by_title_call == args.method = "by_title"
        input == IF by_title_call THEN args.title ELSE args.query
        reference == IF by_title_call /\ Strip(input) # <<>>
                     THEN FindReference(store, input, 1) ELSE None
        text == IF by_title_call /\ reference # None
                THEN build_text(reference[1]) ELSE Returned(input)
    IN  /\ reference_doc = reference
        /\ calls = <<>> =>
             ret = (IF Strip(input) = <<>> THEN Returned(<<>>)
                    ELSE IF by_title_call /\ reference = None
                    THEN Raised("ValueError",
                                <<"Title '">> \o input \o <<"' not found in database">>)
                    ELSE text)
        /\ calls # <<>> =>
             /\ Strip(input) # <<>>
             /\ text.kind = "return"
             /\ calls[1] = Encode(text.value)
        /\ Len(calls) = 1 => ret = EncodeFailure
        /\ Len(calls) >= 2 =>
             /\ calls[2].requested = DEFAULT_SEARCH_K
             /\ calls[2].k = (IF DEFAULT_SEARCH_K < Len(store)
                              THEN DEFAULT_SEARCH_K ELSE Len(store))
             /\ calls[2].candidates =
                  (IF calls[2].answer.kind = "raise" THEN <<>>
                   ELSE CandidatesOf(store, calls[2].answer.value))
        /\ Len(calls) = 2 => ret = calls[2].answer /\ ret.kind = "raise"
        /\ Len(calls) = 3 =>
             /\ calls[2].answer.kind = "return"
             /\ calls[3].candidates = calls[2].candidates
             /\ calls[3].reference_genres =
                  (IF by_title_call THEN ReferenceGenres(reference[1]) ELSE <<>>)
             /\ ret = Returned(Take(calls[3].ranked, args.n))
        /\ Len(calls) <= 3

\* C18: whatever requests came before, a request is answered as an engine
\* just constructed over the same corpus and index answers it, and no
\* request, failing or empty ones included, changes the loaded documents or
\* the index.
NoSessionState ==
    /\ [](Serving => FreshEngine)
    /\ [](pc = "replied" => ReplyOfFreshEngine)
    /\ [][documents' = documents /\ ntotal' = ntotal]_vars

NoSessionStateWitness ==
    /\ Ranked
    /\ earlier = "failed"
    /\ args.method = "by_title"
    /\ Len(ret.value) = 2
    /\ FreshEngine

\* a request that the embedding model or the index failed
ProviderFailed == pc = "replied" /\ calls # <<>> /\ ret.kind = "raise"

\* C19: a failure of the embedding model or of the index is raised to the
\* caller of that request as it is, after one attempt of each call, and the
\* engine keeps its documents and index: the requests after it are answered
\* as by an engine just constructed.
FailureLeavesEngineValid ==
    /\ [](ProviderFailed =>
            /\ Len(calls) \in {1, 2}
            /\ calls[1].fn = "encode"
            /\ Len(calls) = 1 => ret = EncodeFailure
            /\ Len(calls) = 2 => calls[2].fn = "search" /\ ret = calls[2].answer
            /\ earlier = "failed"
            /\ FreshEngine)
    /\ [](earlier = "failed" =>
            /\ FreshEngine
            /\ pc = "serving" => args = <<>> /\ ret = <<>> /\ calls = <<>>
            /\ pc = "replied" => ReplyOfFreshEngine)
    /\ [][ProviderFailed' => documents' = documents /\ ntotal' = ntotal]_vars

FailureLeavesEngineValidWitness ==
    /\ Ranked
    /\ earlier = "failed"
    /\ args.method = "by_text"
    /\ ret.value # <<>>
    /\ FreshEngine

(***************************************************************************)
(* rank_candidates on the candidates of a corpus of three documents        *)
(***************************************************************************)
ThreeMetadata ==
    { [genres |-> <<>>,                  popularity |-> Some(0), rating |-> Some(0)],
      [genres |-> <<"Action">>,          popularity |-> Some(2), rating |-> Some(1)],
      [genres |-> <<"Action", "Drama">>, popularity |-> Some(1), rating |-> Some(0)],
      [genres |-> <<"Action">>,          popularity |-> None,    rating |-> Some(1)] }

ThreeFields ==
    { [k \in DOMAIN m \cup {"semantic"} |-> IF k = "semantic" THEN sem ELSE m[k]] :
         sem \in RankSemantics, m \in ThreeMetadata }

InitRankThree ==
    /\ pc = "ready"
    /\ args \in [candidates : {WithDocs(fs) : fs \in [1..3 -> ThreeFields]},
                  reference_genres : {<<>>, <<"Action">>, <<"Action", "Comedy">>}]
    /\ ret = <<>>
    /\ documents = <<>> /\ ntotal = 0 /\ reference_doc = None /\ calls = <<>>
    /\ earlier = "none" /\ store = <<>> /\ embeddings_file = None /\ index_file = None
    /\ NoCallersNoDashboard

SpecRankThree == InitRankThree /\ [][Rank]_vars

(***************************************************************************)
(* Properties of the ranking of three documents                            *)
(***************************************************************************)
\* candidate a's genres hold every reference genre and its semantic score
\* is above the other candidates'
SupersetAndNearest(a) ==
    /\ ToSet(args.reference_genres) \subseteq ToSet(args.candidates[a]["genres"])
    /\ \A b \in 1..Len(args.candidates) :
          b # a => FLess(args.candidates[b]["semantic"], args.candidates[a]["semantic"])

\* C22: of three candidates, the one whose genres are a superset of the
\* reference genres and whose semantic score is the highest comes first in
\* the ranking, whatever the genres, popularity and rating of the others.
SupersetAndNearestRanksFirst ==
    pc = "done" /\ Len(args.candidates) = 3 =>
        \A a \in 1..3 : SupersetAndNearest(a) => ret[1][2] = args.candidates[a]["doc"]

(***************************************************************************)
(* Properties of null metadata, of invalid positions and of the ranker's   *)
(* output as a rearrangement                                               *)
(***************************************************************************)
\* the candidates with 0 in the place of a null popularity or rating
ZeroForNull(candidates) ==
    [i \in 1..Len(candidates) |->
        [candidates[i] EXCEPT !.popularity = IF @ = None THEN Some(0) ELSE @,
                              !.rating = IF @ = None THEN Some(0) ELSE @]]

\* C24: by_text and by_title rank a candidate whose popularity or
\* average_score is null as if the value were 0: the ranking is the ranking
\* of the same candidates with 0 for every null.
NullMetadataCountsAsZero ==
    Ranked =>
        calls[3].ranked = rank_candidates(ZeroForNull(calls[3].candidates),
                                          calls[3].reference_genres)

\* C25: _search_similar returns one candidate for each position the index
\* answered that lies in 0..len(documents)-1 and none for a negative
\* position or one beyond the documents; no candidate carries the score of
\* the index's "no neighbour" entry.
SkipsInvalidPositions ==
    Retrieved =>
        /\ Len(ret.value) =
              Cardinality({i \in 1..Len(Found) :
                              Found[i][1] >= 0 /\ Found[i][1] < Len(documents)})
        /\ \A j \in 1..Len(ret.value) :
              /\ ret.value[j].semantic # NoNeighbour[2]
              /\ \E i \in 1..Len(Found) :
                    /\ Found[i][1] >= 0 /\ Found[i][1] < Len(documents)
                    /\ ret.value[j].doc = documents[Found[i][1] + 1]

\* C26: the ranking holds the document of every candidate exactly once and
\* nothing else, and rank_candidates leaves its arguments as they were.
RankIsPermutation ==
    /\ [](pc = "done" /\ "candidates" \in DOMAIN args =>
            /\ Len(ret) = Len(args.candidates)
            /\ \A i \in 1..Len(args.candidates) :
                  Cardinality({j \in 1..Len(ret) :
                                  ret[j][2] = args.candidates[i]["doc"]}) = 1)
    /\ [][args' = args]_vars

RankIsPermutationWitness ==
    /\ pc = "done"
    /\ Len(args.candidates) = 3
    /\ ret[1][2] = 3 /\ ret[2][2] = 1 /\ ret[3][2] = 2
    /\ \A j \in 1..3 : ~IsNaN(ret[j][1])

(***************************************************************************)
(* Two callers on one engine: by_text and by_title statement by statement, *)
(* with an embedding model and an index whose answers depend on their      *)
(* input only                                                              *)
(***************************************************************************)
Callers == {"c1", "c2"}

\* the requests a caller makes
CallerRequests ==
    { [method |-> "by_text", query |-> <<"a">>, n |-> DEFAULT_RESULTS_N],
      [method |-> "by_title", title |-> <<"b">>, n |-> 1] }

\* a caller between two calls
Idle ==
    [pc |-> "idle", args |-> <<>>, reference_doc |-> None, text |-> <<>>,
     query_vector |-> <<>>, found |-> <<>>, candidates |-> <<>>, ret |-> <<>>]

\* the whole array of a vector is shared
SharedVector(t) == "c1"

\* where a call keeps its query vector: query_vector and ref_vector are
\* local variables of by_text and by_title, one array for each call
VectorOf(t) == t

\* self.index.search(query_vector, k) for k > 0 of an index that answers
\* the same vector the same way: the min(k, ntotal) nearest positions, in
\* an order that depends on the vector
IndexAnswer(query_vector, k) ==
    LET m == IF k < ntotal THEN k ELSE ntotal IN
    [i \in 1..k |->
        IF i > m THEN NoNeighbour
        ELSE << IF Len(query_vector.text) = 1 THEN i - 1 ELSE ntotal - i,
                IF i = 1 THEN Dyadic(3, 2) ELSE Dyadic(1, 1) >>]

InitCallers ==
    /\ pc = "serving"
    /\ documents \in SeqsUpTo(DocPool, MaxDocs) \ {<<>>}
    /\ ntotal \in 1..MaxDocs
    /\ args = <<>>
    /\ ret = <<>>
    /\ reference_doc = None
    /\ calls = <<>>
    /\ earlier = "none"
    /\ store = documents
    /\ embeddings_file = Some(ntotal)
    /\ index_file = Some(ntotal)
    /\ threads = [t \in Callers |-> Idle]
    /\ state = <<>>
    /\ engine = <<>>
    /\ key = <<>>

\* the engine and everything outside the callers' locals
CallersFrame ==
    /\ EngineUnchanged
    /\ UNCHANGED <<pc, args, ret, reference_doc, calls, earlier, store,
                   embeddings_file, index_file, state, engine, key>>

\* by_text up to the encoding: the test of the query
EnterByText(t, request) ==
    /\ threads[t].pc = "idle"
    /\ request.method = "by_text"
    /\ threads' = [threads EXCEPT ![t] =
          IF Strip(request.query) = <<>>
          THEN [Idle EXCEPT !.pc = "done", !.args = request, !.ret = Returned(<<>>)]
          ELSE [Idle EXCEPT !.pc = "encode", !.args = request, !.text = request.query]]
    /\ CallersFrame

\* by_title up to the encoding: the test of the title, the loop over the
\* documents and build_text
EnterByTitle(t, request) ==
    /\ threads[t].pc = "idle"
    /\ request.method = "by_title"
    /\ threads' = [threads EXCEPT ![t] =
          IF Strip(request.title) = <<>>
          THEN [Idle EXCEPT !.pc = "done", !.args = request, !.ret = Returned(<<>>)]
          ELSE IF FindReference(documents, request.title, 1) = None
          THEN [Idle EXCEPT !.pc = "done", !.args = request,
                            !.ret = Raised("ValueError",
                                <<"Title '">> \o request.title \o <<"' not found in database">>)]
          ELSE IF build_text(FindReference(documents, request.title, 1)[1]).kind = "raise"
          THEN [Idle EXCEPT !.pc = "done", !.args = request,
                            !.reference_doc = FindReference(documents, request.title, 1),
                            !.ret = build_text(FindReference(documents, request.title, 1)[1])]
          ELSE [Idle EXCEPT !.pc = "encode", !.args = request,
                            !.reference_doc = FindReference(documents, request.title, 1),
                            !.text = build_text(FindReference(documents, request.title, 1)[1]).value]]
    /\ CallersFrame

\* self.model.encode([text], convert_to_numpy=True).astype("float32")
EncodeStep(t) ==
    /\ threads[t].pc = "encode"
    /\ threads' = [threads EXCEPT
          ![VectorOf(t)].query_vector = [text |-> threads[t].text, normalized |-> FALSE],
          ![t].pc = "normalize"]
    /\ CallersFrame

\* faiss.normalize_L2(query_vector): the array is changed in place
NormalizeStep(t) ==
    /\ threads[t].pc = "normalize"
    /\ threads[VectorOf(t)].query_vector # <<>>
    /\ threads' = [threads EXCEPT
          ![VectorOf(t)].query_vector.normalized = TRUE,
          ![t].pc = "search"]
    /\ CallersFrame

\* scores, indices = self.index.search(query_vector, min(k, len(self.documents)))
SearchStep(t) ==
    /\ threads[t].pc = "search"
    /\ threads[VectorOf(t)].query_vector # <<>>
    /\ threads' = [threads EXCEPT
          ![t].found = IndexAnswer(threads[VectorOf(t)].query_vector,
                                   IF DEFAULT_SEARCH_K < Len(documents)
                                   THEN DEFAULT_SEARCH_K ELSE Len(documents)),
          ![t].pc = "resolve"]
    /\ CallersFrame

\* the loop of _search_similar that builds the candidates
ResolveStep(t) ==
    /\ threads[t].pc = "resolve"
    /\ threads' = [threads EXCEPT
          ![t].candidates = CandidatesOf(documents, threads[t].found),
          ![t].pc = "rank"]
    /\ CallersFrame

\* return rank_candidates(candidates, ...)[:n]
RankStep(t) ==
    /\ threads[t].pc = "rank"
    /\ threads' = [threads EXCEPT
          ![t].ret = Returned(Take(
                        rank_candidates(threads[t].candidates,
                            IF threads[t].args.method = "by_title"
                            THEN ReferenceGenres(threads[t].reference_doc[1])
                            ELSE <<>>),
                        threads[t].args.n)),
          ![t].pc = "done"]
    /\ CallersFrame

\* the caller has its result
ReturnStep(t) ==
    /\ threads[t].pc = "done"
    /\ threads' = [threads EXCEPT ![t] = Idle]
    /\ CallersFrame

NextCallers ==
    \E t \in Callers :
        \/ \E request \in CallerRequests : EnterByText(t, request)
        \/ \E request \in CallerRequests : EnterByTitle(t, request)
        \/ EncodeStep(t)
        \/ NormalizeStep(t)
        \/ SearchStep(t)
        \/ ResolveStep(t)
        \/ RankStep(t)
        \/ ReturnStep(t)

SpecCallers == InitCallers /\ [][NextCallers]_vars

(***************************************************************************)
(* Properties of concurrent calls                                          *)
(***************************************************************************)
\* what the request returns or raises when no other call is in progress
ResultAlone(request) ==
    LET by_title_call == request.method = "by_title"
        input == IF by_title_call THEN request.title ELSE request.query
        reference == IF by_title_call THEN FindReference(store, input, 1) ELSE None
        text == IF by_title_call /\ reference # None
                THEN build_text(reference[1]) ELSE Returned(input)
        k == IF DEFAULT_SEARCH_K < Len(store) THEN DEFAULT_SEARCH_K ELSE Len(store)
    IN  IF Strip(input) = <<>> THEN Returned(<<>>)
        ELSE IF by_title_call /\ reference = None
        THEN Raised("ValueError", <<"Title '">> \o input \o <<"' not found in database">>)
        ELSE IF text.kind = "raise" THEN text
        ELSE Returned(Take(
                 rank_candidates(
                     CandidatesOf(store,
                         IndexAnswer([text |-> text.value, normalized |-> TRUE], k)),
                     IF by_title_call THEN ReferenceGenres(reference[1]) ELSE <<>>),
                 request.n))

\* C21: in every interleaving of the statements of two callers' by_text and
\* by_title calls, a call that ends has the result the same request has
\* when it runs alone, and the documents and the index are the ones the
\* engine loaded.
ConcurrentCallsAsAlone ==
    /\ documents = store
    /\ index_file = Some(ntotal)
    /\ \A t \in Callers :
          threads[t].pc = "done" => threads[t].ret = ResultAlone(threads[t].args)

ConcurrentCallsAsAloneWitness ==
    /\ threads["c1"].pc = "done"
    /\ threads["c1"].args.method = "by_text"
    /\ threads["c1"].ret.kind = "return"
    /\ Len(threads["c1"].ret.value) = 2
    /\ threads["c2"].pc = "search"
    /\ threads["c2"].args.method = "by_title"
    /\ threads["c2"].query_vector.normalized

(***************************************************************************)
(* cli_user_interface.py: the dashboard                                    *)
(***************************************************************************)
\* the keys _get_key_non_blocking returns ("\r" is Enter, "esc" stands for
\* "\x1b" and "backspace" for "\x08" and "\x7f"), and among them the ones
\* for which len(key) == 1 and key.isprintable()
Keys == {"\r", "esc", "backspace", "up", "down", "left",
         "a", "k", "m", "t", "s", "d", "h", "q"}
Printable(k) == k \in {"a", "k", "m", "t", "s", "d", "h", "q"}

\* the letters a user types into a search view
Typed == {"a", "k"}

MaxBuffer == 1    \* most characters typed into the search input buffer

\* AppState() without the fields that are only displayed; search_query,
\* which _handle_search reads back at once, is the query handed to it
AppState ==
    [current_view |-> "dashboard",
     search_input_buffer |-> <<>>, search_results |-> None,
     selected_result |-> 0, is_loading |-> FALSE, error_message |-> <<>>,
     title_matches |-> None, selected_title_index |-> 0]

\* the title_english of a result only
EnglishTitleOf(doc) == OrEmpty(Get(doc, "title_english", None))

\* doc.get("title_romaji") or doc.get("title_english"), <<>> when neither
\* is there
TitleOf(doc) ==
    IF Truthy(Get(doc, "title_romaji", None)) THEN Get(doc, "title_romaji", None)[1]
    ELSE OrEmpty(Get(doc, "title_english", None))

\* db/mongo.py get_all_titles
RECURSIVE get_all_titles(_)
get_all_titles(docs) ==
    IF docs = <<>> THEN <<>>
    ELSE (IF TitleOf(docs[1]) # <<>> THEN <<TitleOf(docs[1])>> ELSE <<>>)
             \o get_all_titles(Tail(docs))

\* DashboardUI.titles: loaded after the engine, left empty when the
\* initialization failed
Titles == IF engine = None THEN <<>> ELSE get_all_titles(store)

StartsWith(str, prefix) ==
    Len(prefix) <= Len(str) /\ SubSeq(str, 1, Len(prefix)) = prefix

\* matches.sort(key=lambda x: (not x.lower().startswith(query), len(x)))
RECURSIVE InsertMatch(_, _, _)
InsertMatch(sorted, title, query) ==
    LET last == sorted[Len(sorted)]
        kt   == IF StartsWith(Lower(title), query) THEN 0 ELSE 1
        kl   == IF StartsWith(Lower(last), query) THEN 0 ELSE 1
    IN  IF sorted = <<>> THEN <<title>>
        ELSE IF kt < kl \/ (kt = kl /\ Len(title) < Len(last))
        THEN Append(InsertMatch(SubSeq(sorted, 1, Len(sorted) - 1), title, query), last)
        ELSE Append(sorted, title)

RECURSIVE SortMatches(_, _)
SortMatches(matches, query) ==
    IF matches = <<>> THEN <<>>
    ELSE InsertMatch(SortMatches(SubSeq(matches, 1, Len(matches) - 1), query),
                     matches[Len(matches)], query)

\* the title_matches _update_title_matches computes for a buffer
MatchingTitles(buffer) ==
    IF buffer = <<>> THEN <<>>
    ELSE LET query    == Lower(buffer)
             starting == SelectSeq(Titles, LAMBDA title : StartsWith(Lower(title), query))
             matches  == IF starting # <<>> THEN starting
                         ELSE SelectSeq(Titles, LAMBDA title : Contains(query, Lower(title)))
         IN  Take(SortMatches(matches, query), 50)

_update_title_matches(st) ==
    [st EXCEPT !.title_matches = MatchingTitles(st.search_input_buffer),
               !.selected_title_index = 0]

\* a search whose failure sends the user back to the dashboard view
HandleSearchLeavingOnFailure(st, outcome) ==
    IF outcome.kind = "raise"
    THEN [st EXCEPT !.is_loading = FALSE, !.current_view = "dashboard",
                    !.error_message = <<"Search failed: ", outcome.message>>]
    ELSE IF outcome.value # <<>>
    THEN [st EXCEPT !.is_loading = FALSE, !.error_message = <<>>,
                    !.search_results = outcome.value,
                    !.current_view = "results", !.selected_result = 0]
    ELSE [st EXCEPT !.is_loading = FALSE, !.search_results = outcome.value,
                    !.error_message = <<"No results found">>]

\* the state _handle_search leaves when the engine's method ended with
\* outcome
HandleSearchState(st, outcome) ==
    IF outcome.kind = "raise"
    THEN [st EXCEPT !.is_loading = FALSE,
                    !.error_message = <<"Search failed: ", outcome.message>>]
    ELSE IF outcome.value # <<>>
    THEN [st EXCEPT !.is_loading = FALSE, !.error_message = <<>>,
                    !.search_results = outcome.value,
                    !.current_view = "results", !.selected_result = 0]
    ELSE [st EXCEPT !.is_loading = FALSE, !.search_results = outcome.value,
                    !.error_message = <<"No results found">>]

\* self.engine.by_text(...) or self.engine.by_title(...) in _handle_search;
\* with no engine the attribute lookup on None raises
EngineCall(search_type, query) ==
    IF engine = None
    THEN /\ pc = "serving"
         /\ args' = IF search_type = "text"
                    THEN [method |-> "by_text", query |-> query, n |-> DEFAULT_RESULTS_N]
                    ELSE [method |-> "by_title", title |-> query, n |-> DEFAULT_RESULTS_N]
         /\ ret' = Raised("AttributeError", <<"'NoneType' object has no attribute">>)
         /\ calls' = <<>>
         /\ reference_doc' = None
         /\ pc' = "replied"
         /\ UNCHANGED <<earlier, documents, ntotal, store, embeddings_file, index_file>>
    ELSE IF search_type = "text"
    THEN by_text(query, DEFAULT_RESULTS_N)
    ELSE by_title(query, DEFAULT_RESULTS_N)

\* the state _handle_search(search_type) leaves with search_query = query,
\* outcome being how the engine's method ended
_handle_search(st, search_type, query, outcome) ==
    IF Strip(query) = <<>>
    THEN [st EXCEPT !.is_loading = FALSE,
                    !.error_message = IF search_type = "text"
                                      THEN <<"Please enter a search query">>
                                      ELSE <<"Please enter a title">>]
    ELSE HandleSearchState(st, outcome)

\* the buffer is kept
KeepBuffer(st) == st

\* self.state.search_input_buffer = ""
ClearBuffer(st) == [st EXCEPT !.search_input_buffer = <<>>]

\* the selection moves down whatever the number of results
MoveDownUnbounded(selected, results) == selected + 1

\* min(len(search_results) - 1 if search_results else 0, selected_result + 1)
MoveDown(selected, results) ==
    LET last == IF results # <<>> THEN Len(results) - 1 ELSE 0
    IN  IF last < selected + 1 THEN last ELSE selected + 1

\* max(0, index - 1)
MoveUp(index) == IF index - 1 < 0 THEN 0 ELSE index - 1

\* DashboardUI(): _initialize_app with a Recommender, or with the failure
\* of its construction; the corpus is a document with both titles, alone
\* or with one that has an English title only
InitDashboard ==
    /\ pc = "serving"
    /\ args = <<>>
    /\ ret = <<>>
    /\ reference_doc = None
    /\ calls = <<>>
    /\ earlier = "none"
    /\ threads = <<>>
    /\ key = <<>>
    /\ \/ /\ engine = Some("Recommender")
          /\ documents \in
               LET romaji  == [title_romaji |-> Some(<<"A", "b">>),
                               title_english |-> Some(<<"b">>),
                               genres |-> Some(<<"Action", "Drama">>),
                               tags |-> Some(<<"Comedy">>),
                               description |-> Some(<<"a">>),
                               popularity |-> Some(2), average_score |-> Some(1)]
                   english == [title_romaji |-> None,
                               title_english |-> Some(<<"a", "k">>),
                               genres |-> Some(<<"Action">>), tags |-> Some(<<>>),
                               description |-> None,
                               popularity |-> Some(1), average_score |-> Some(0)]
               IN  { <<romaji>>, <<romaji, english>> }
          /\ ntotal = Len(documents)
          /\ store = documents
          /\ embeddings_file = Some(ntotal)
          /\ index_file = Some(ntotal)
          /\ state = AppState
       \/ /\ engine = None
          /\ documents = <<>>
          /\ ntotal = 0
          /\ store = <<>>
          /\ embeddings_file = None
          /\ index_file = None
          /\ state = [AppState EXCEPT !.error_message =
                         <<"Initialization failed: ", <<"Required data file not found">>>>]

\* the search a key starts in state st, None when it starts none: Enter in
\* a search view with a highlighted match or a typed query, 'm' in the
\* results view with a result that has a title
SearchOf(st, k) ==
    IF st.current_view \in {"search_text", "search_title"}
    THEN IF k # "\r" THEN None
         ELSE IF st.current_view = "search_title" /\ st.title_matches # <<>>
         THEN Some([search_type |-> "title",
                    query |-> st.title_matches[st.selected_title_index + 1]])
         ELSE IF Strip(st.search_input_buffer) # <<>>
         THEN Some([search_type |-> IF st.current_view = "search_text"
                                    THEN "text" ELSE "title",
                    query |-> st.search_input_buffer])
         ELSE None
    ELSE IF /\ k = "m"
            /\ st.current_view = "results"
            /\ st.search_results # <<>>
            /\ st.selected_result < Len(st.search_results)
            /\ DOMAIN st.search_results[st.selected_result + 1][2] # {}
            /\ TitleOf(st.search_results[st.selected_result + 1][2]) # <<>>
    THEN Some([search_type |-> "title",
               query |-> TitleOf(st.search_results[st.selected_result + 1][2])])
    ELSE None

\* the state the handler of a key that started a search leaves: in a search
\* view the buffer is cleared, and the matches when the view is still the
\* title search or a match was searched
AfterSearch(st, search, outcome) ==
    IF st.current_view \in {"search_text", "search_title"}
    THEN [ClearBuffer(_handle_search(st, search.search_type, search.query, outcome))
          EXCEPT !.title_matches =
              IF st.current_view = "search_title" /\ st.title_matches # <<>>
              THEN <<>>
              ELSE IF _handle_search(st, search.search_type, search.query,
                                     outcome).current_view = "search_title"
              THEN <<>> ELSE @]
    ELSE _handle_search(st, search.search_type, search.query, outcome)

\* the state the handler of a key that starts no search leaves: in the text
\* or title search view, and in the other views
AfterKey(st, k) ==
    IF st.current_view \in {"search_text", "search_title"}
    THEN
        IF k = "\r"
        THEN [st EXCEPT !.error_message = <<"Please enter a search query">>]
        ELSE IF k = "esc"
        THEN [ClearBuffer(st) EXCEPT !.current_view = "dashboard", !.title_matches = <<>>]
        ELSE IF k = "backspace"
        THEN IF st.current_view = "search_title"
             THEN _update_title_matches(
                      [st EXCEPT !.search_input_buffer = SubSeq(@, 1, Len(@) - 1)])
             ELSE [st EXCEPT !.search_input_buffer = SubSeq(@, 1, Len(@) - 1)]
        ELSE IF /\ k \in {"up", "k"}
                /\ st.current_view = "search_title"
                /\ st.title_matches # <<>>
        THEN [st EXCEPT !.selected_title_index = MoveUp(@)]
        ELSE IF /\ k \in {"down", "j"}
                /\ st.current_view = "search_title"
                /\ st.title_matches # <<>>
        THEN [st EXCEPT !.selected_title_index =
                 IF Len(st.title_matches) - 1 < @ + 1
                 THEN Len(st.title_matches) - 1 ELSE @ + 1]
        ELSE IF Printable(k)
        THEN IF st.current_view = "search_title"
             THEN _update_title_matches([st EXCEPT !.search_input_buffer = Append(@, k)])
             ELSE [st EXCEPT !.search_input_buffer = Append(@, k)]
        ELSE st
    ELSE
        IF k = "d"
        THEN [st EXCEPT !.current_view = "dashboard", !.error_message = <<>>]
        ELSE IF k = "t"
        THEN [st EXCEPT !.current_view = "search_text"]
        ELSE IF k = "s"
        THEN [ClearBuffer(st) EXCEPT !.current_view = "search_title",
                                     !.title_matches = <<>>,
                                     !.selected_title_index = 0]
        ELSE IF k = "h"
        THEN [st EXCEPT !.current_view = "help"]
        ELSE IF k \in {"up", "k"} /\ st.current_view = "results"
        THEN [st EXCEPT !.selected_result = MoveUp(@)]
        ELSE IF k \in {"down", "j"} /\ st.current_view = "results"
        THEN [st EXCEPT !.selected_result = MoveDown(@, st.search_results)]
        ELSE st

\* one turn of the loop of run() that reads a key: the handler of the key
\* runs to its end, or to the reply of the engine it calls; 'q' outside the
\* search views leaves the loop
KeyPress(k) ==
    /\ pc = "serving"
    /\ state # <<>>
    /\ (state.current_view \in {"search_text", "search_title"} /\ Printable(k)) =>
           k \in Typed
    /\ Len(AfterKey(state, k).search_input_buffer) <= MaxBuffer
    /\ IF SearchOf(state, k) # None /\ Strip(SearchOf(state, k)[1].query) # <<>>
       THEN /\ EngineCall(SearchOf(state, k)[1].search_type, SearchOf(state, k)[1].query)
            /\ state' = AfterSearch(state, SearchOf(state, k)[1], ret')
            /\ key' = k
       ELSE /\ pc' = IF k = "q" /\ state.current_view \notin {"search_text", "search_title"}
                     THEN "down" ELSE pc
            /\ state' = IF SearchOf(state, k) # None
                        THEN AfterSearch(state, SearchOf(state, k)[1], ret)
                        ELSE AfterKey(state, k)
            /\ key' = <<>>
            /\ UNCHANGED <<args, ret, reference_doc, calls, earlier, documents, ntotal,
                           store, embeddings_file, index_file>>
    /\ UNCHANGED <<threads, engine>>

\* _handle_search returns to run(), which renders and starts its next turn
NextTurn ==
    /\ pc = "replied"
    /\ pc' = "serving"
    /\ args' = <<>>
    /\ ret' = <<>>
    /\ reference_doc' = None
    /\ calls' = <<>>
    /\ key' = <<>>
    /\ UNCHANGED <<documents, ntotal, earlier, store, embeddings_file, index_file>>
    /\ UNCHANGED <<threads, state, engine>>

NextDashboard ==
    \/ \E k \in Keys : KeyPress(k)
    \/ NextTurn

SpecDashboard == InitDashboard /\ [][NextDashboard]_vars


(***************************************************************************)
(* The dashboard's claims                                                  *)
(***************************************************************************)
\* the title of the selected result as the interface shows it
SelectedTitle ==
    LET doc == state.search_results[state.selected_result + 1][2]
    IN  IF "title_romaji" \in DOMAIN doc /\ doc.title_romaji \notin {None, Some(<<>>)}
        THEN doc.title_romaji[1]
        ELSE doc.title_english[1]

\* C23: the 'm' key calls the engine only in the results view with a
\* non-empty list, and there it calls by_title with the title_romaji of the
\* selected result, or its title_english when it has no title_romaji; when
\* by_title returns results they replace the list, the first one is
\* selected and the view is still the results view
FindMoreSimilar ==
    [][KeyPress("m") =>
          /\ pc' = "replied" <=>
                (state.current_view = "results" /\ state.search_results # <<>>)
          /\ pc' = "replied" =>
                args' = [method |-> "by_title", title |-> SelectedTitle,
                         n |-> DEFAULT_RESULTS_N]
          /\ (pc' = "replied" /\ ret'.kind = "return" /\ ret'.value # <<>>) =>
                /\ state'.search_results = ret'.value
                /\ state'.selected_result = 0
                /\ state'.current_view = "results"]_vars

\* 'm' on the second result, which has an English title only, has found
\* the titles similar to it
FindMoreSimilarWitness ==
    /\ pc = "replied"
    /\ key = "m"
    /\ args.method = "by_title"
    /\ args.title = <<"a", "k">>
    /\ ret.kind = "return"
    /\ ret.value # <<>>
    /\ state.search_results = ret.value
    /\ state.selected_result = 0
    /\ state.current_view = "results"


\* C27: whenever the result list is non-empty, the selected result is one
\* of its positions: 0 <= selected_result < len(search_results)
SelectionInRange ==
    state.search_results # <<>> =>
        /\ 0 <= state.selected_result
        /\ state.selected_result < Len(state.search_results)

\* the selection has been moved down to the last of two results
SelectionInRangeWitness ==
    /\ pc = "serving"
    /\ state.current_view = "results"
    /\ Len(state.search_results) = 2
    /\ state.selected_result = 1

\* C28: a search of the dashboard whose engine call raises leaves the
\* dashboard running with the view, the results and the selection it had,
\* shows a 'Search failed' message, and no step leaves is_loading set
FailedSearchKeepsView ==
    /\ [][(pc = "serving" /\ pc' = "replied" /\ ret'.kind = "raise") =>
             /\ state'.current_view = state.current_view
             /\ state'.search_results = state.search_results
             /\ state'.selected_result = state.selected_result
             /\ state'.error_message = <<"Search failed: ", ret'.message>>]_vars
    /\ []((pc = "replied" /\ ret.kind = "raise") => ENABLED NextTurn)
    /\ [](~state.is_loading)

\* a title nobody has was searched from the title search view, with results
\* of an earlier search on display
FailedSearchKeepsViewWitness ==
    /\ pc = "replied"
    /\ ret.kind = "raise"
    /\ ret.exc = "ValueError"
    /\ key = "\r"
    /\ state.current_view = "search_title"
    /\ state.search_results # <<>>
    /\ state.error_message = <<"Search failed: ", ret.message>>

\* C29: in the title search view a printable key is appended to the input
\* buffer and the matches are those of the new buffer
TypedKeysReachBuffer ==
    [][\A k \in Typed :
          (state.current_view = "search_title" /\ KeyPress(k)) =>
              /\ state'.search_input_buffer = Append(state.search_input_buffer, k)
              /\ state'.title_matches = MatchingTitles(state'.search_input_buffer)]_vars

\* C30: outside the two search views the search input buffer is empty
BufferEmptyOutsideSearch ==
    state.current_view \notin {"search_text", "search_title"} =>
        state.search_input_buffer = <<>>

\* the typed description "a" was searched and its results are shown
BufferEmptyOutsideSearchWitness ==
    /\ pc = "replied"
    /\ key = "\r"
    /\ args.method = "by_text"
    /\ args.query = <<"a">>
    /\ state.current_view = "results"
    /\ state.search_input_buffer = <<>>

====
